---- MODULE Spec2Model ----
(***************************************************************************)
(* Model of lmms_eval/models/simple/virtual_model.py: the VirtualModel     *)
(* adapter that answers generation requests by looking up the stored       *)
(* answer of the requested document.                                       *)
(*                                                                         *)
(* State: the instance field _parent_tasks, the batch of requests the      *)
(* harness submits, and a record of the most recent call on the instance   *)
(* (operation, registry on entry, argument, outcome).  configured_with is  *)
(* a history variable: the argument of the latest set_parent_tasks call.   *)
(* One action per public method; each action is the whole method.          *)
(***************************************************************************)
EXTENDS Integers, Sequences, FiniteSets, TLC

VARIABLES parent_tasks, last, configured_with, submitted

vars == <<parent_tasks, last, configured_with, submitted>>

(***************************************************************************)
(* Bounds of the explored inputs.                                          *)
(***************************************************************************)
\* longest batch handed to one call
MaxBatch == 2
\* document indices range over -MaxDocId .. MaxDocId
MaxDocId == 2

(***************************************************************************)
(* Python values returned by doc_to_answer, as tagged records: None, a     *)
(* str, an int, or a list whose items are None, str or int values.  Lists  *)
(* are not nested, so str() at line 100, which runs after line 98 replaced *)
(* a list by its first item, is only ever applied to None, a str or an     *)
(* int.                                                                    *)
(***************************************************************************)
PyNone == [type |-> "NoneType", s |-> "", n |-> 0, items |-> <<>>]
PyStrVal(str) == [type |-> "str", s |-> str, n |-> 0, items |-> <<>>]
PyIntVal(int) == [type |-> "int", s |-> "", n |-> int, items |-> <<>>]
PyListVal(seq) == [type |-> "list", s |-> "", n |-> 0, items |-> seq]

Digit(d) ==
    CASE d = 0 -> "0" [] d = 1 -> "1" [] d = 2 -> "2" [] d = 3 -> "3"
      [] d = 4 -> "4" [] d = 5 -> "5" [] d = 6 -> "6" [] d = 7 -> "7"
      [] d = 8 -> "8" [] d = 9 -> "9"

RECURSIVE NatToStr(_)
NatToStr(k) == IF k < 10 THEN Digit(k) ELSE NatToStr(k \div 10) \o Digit(k % 10)

\* str(int)
IntToStr(k) == IF k < 0 THEN "-" \o NatToStr(0 - k) ELSE NatToStr(k)

\* str(answer) at line 100, for a str, an int or None
PyStr(v) ==
    CASE v.type = "str" -> v.s
      [] v.type = "int" -> IntToStr(v.n)
      [] v.type = "NoneType" -> "None"

(***************************************************************************)
(* Documents, task handles and registries handed to the adapter.           *)
(* doc_to_answer either returns a value or raises a fault.                 *)
(***************************************************************************)
Returns(v) == [raises |-> FALSE, exc |-> "", answer |-> v]
Raises(e) == [raises |-> TRUE, exc |-> e, answer |-> PyNone]

\* belong_to_task.doc_to_answer(doc), called at line 88
DocToAnswer(doc) ==
    CASE doc = "doc_cat" -> Returns(PyStrVal("cat"))
      [] doc = "doc_list" -> Returns(PyListVal(<<PyStrVal("cat"), PyStrVal("dog")>>))
      [] doc = "doc_empty" -> Returns(PyListVal(<<>>))
      [] doc = "doc_none" -> Returns(PyNone)
      [] doc = "doc_num" -> Returns(PyIntVal(-42))
      [] doc = "doc_bad" -> Raises("KeyError")

HandleA == [dataset |-> [test |-> <<"doc_cat", "doc_list">>, val |-> <<"doc_bad">>]]
HandleB == [dataset |-> [test |-> <<"doc_none", "doc_empty", "doc_num">>]]

EmptyRegistry == <<>>
Registries ==
    { EmptyRegistry,
      [T |-> HandleA],
      [T |-> HandleB, U |-> HandleA],
      [U |-> HandleB] }

\* task names the registries use; "unknown_task" is in none of them
TaskNames == {"T", "U"}
SplitNames == {"test", "val"}
DocIds == (0 - MaxDocId) .. MaxDocId

\* Instance objects: arguments is a tuple; has_arguments is
\* hasattr(request, 'arguments')
WellFormed(doc_id, task, split) ==
    [has_arguments |-> TRUE, arguments |-> <<"ctx", "gen_kwargs", "doc_to_visual", doc_id, task, split>>]

Requests ==
    { WellFormed(d, t, s) : d \in DocIds, t \in TaskNames, s \in SplitNames }
    \cup { WellFormed(0, "unknown_task", "test"),
           [has_arguments |-> FALSE, arguments |-> <<>>],
           [has_arguments |-> TRUE, arguments |-> <<"ctx", "gen_kwargs", "doc_to_visual", 0>>],
           [has_arguments |-> TRUE,
            arguments |-> <<"ctx", "gen_kwargs", "doc_to_visual", 0, "T", "test", "extra">>] }

RECURSIVE BatchesOfLen(_)
BatchesOfLen(k) ==
    IF k = 0 THEN { <<>> }
    ELSE { Append(b, r) : b \in BatchesOfLen(k - 1), r \in Requests }

Batches == UNION { BatchesOfLen(k) : k \in 0 .. MaxBatch }

(***************************************************************************)
(* Outcomes of a call: a return value or a raised exception.  For a        *)
(* raise, results is the local list as it stood when the exception left    *)
(* the method.                                                             *)
(***************************************************************************)
Return(results) == [kind |-> "return", exc |-> "", results |-> results]
Raise(e, results) == [kind |-> "raise", exc |-> e, results |-> results]

(***************************************************************************)
(* dataset[split][doc_id] at line 84: dict lookup, then list indexing      *)
(* with Python's negative indices.                                         *)
(***************************************************************************)
Lookup(handle, split, doc_id) ==
    IF split \notin DOMAIN handle.dataset
    THEN [ok |-> FALSE, exc |-> "KeyError", doc |-> ""]
    ELSE LET docs == handle.dataset[split]
             i == IF doc_id < 0 THEN doc_id + Len(docs) ELSE doc_id
         IN  IF i < 0 \/ i >= Len(docs)
             THEN [ok |-> FALSE, exc |-> "IndexError", doc |-> ""]
             ELSE [ok |-> TRUE, exc |-> "", doc |-> docs[i + 1]]

\* Normalize taking the last item of a list (answer[-1]) instead of the
\* first at line 98
NormalizeLastItem(answer) ==
    IF answer.type = "NoneType" THEN ""
    ELSE IF answer.type = "list"
         THEN IF Len(answer.items) > 0 THEN PyStr(answer.items[Len(answer.items)]) ELSE ""
         ELSE PyStr(answer)

\* lines 91-100: the normalisation of the value doc_to_answer returned
Normalize(answer) ==
    IF answer.type = "NoneType" THEN ""
    ELSE IF answer.type = "list"
         THEN IF Len(answer.items) > 0 THEN PyStr(answer.items[1]) ELSE ""
         ELSE PyStr(answer)

\* what one pass of the loop body does: append value to results, or
\* let exception exc leave the method
Appended(value) == [raised |-> FALSE, exc |-> "", value |-> value]
Escapes(exc) == [raised |-> TRUE, exc |-> exc, value |-> ""]

\* TryDocToAnswer without the try/except: the fault leaves the method
DocToAnswerNoTry(doc) ==
    LET r == DocToAnswer(doc)
    IN  IF r.raises THEN Escapes(r.exc) ELSE Appended(Normalize(r.answer))

\* lines 87-105: the try block around doc_to_answer; except Exception
\* appends "" for any fault of doc_to_answer
TryDocToAnswer(doc) ==
    LET r == DocToAnswer(doc)
    IN  IF r.raises THEN Appended("") ELSE Appended(Normalize(r.answer))

\* ResolveRequest accepting any tuple of at least 6 elements
ResolveRequestArityAtLeast6(tasks, request) ==
    IF ~request.has_arguments THEN Appended("")
    ELSE IF Len(request.arguments) < 6 THEN Appended("")
    ELSE LET doc_id == request.arguments[4]
             task == request.arguments[5]
             split == request.arguments[6]
         IN  IF task \notin DOMAIN tasks THEN Appended("")
             ELSE LET found == Lookup(tasks[task], split, doc_id)
                  IN  IF ~found.ok THEN Escapes(found.exc)
                      ELSE TryDocToAnswer(found.doc)

\* ResolveRequest without the membership test of line 74: indexing the
\* registry with an unknown task raises KeyError
ResolveRequestNoTaskCheck(tasks, request) ==
    IF ~request.has_arguments THEN Appended("")
    ELSE IF Len(request.arguments) # 6 THEN Appended("")
    ELSE LET doc_id == request.arguments[4]
             task == request.arguments[5]
             split == request.arguments[6]
         IN  IF task \notin DOMAIN tasks THEN Escapes("KeyError")
             ELSE LET found == Lookup(tasks[task], split, doc_id)
                  IN  IF ~found.ok THEN Escapes(found.exc)
                      ELSE TryDocToAnswer(found.doc)

(***************************************************************************)
(* The loop body, lines 59-105, for one request: either a string is        *)
(* appended to results, or an exception leaves the method.                 *)
(***************************************************************************)
ResolveRequest(tasks, request) ==
    IF ~request.has_arguments THEN Appended("")
    ELSE IF Len(request.arguments) # 6 THEN Appended("")
    ELSE LET doc_id == request.arguments[4]
             task == request.arguments[5]
             split == request.arguments[6]
         IN  IF task \notin DOMAIN tasks THEN Appended("")
             ELSE LET found == Lookup(tasks[task], split, doc_id)
                  IN  IF ~found.ok THEN Escapes(found.exc)
                      ELSE TryDocToAnswer(found.doc)

RECURSIVE GenerateUntilLoop(_, _, _)
\* lines 58-107: the for loop and the return
GenerateUntilLoop(tasks, requests, results) ==
    IF requests = <<>> THEN Return(results)
    ELSE LET step == ResolveRequest(tasks, Head(requests))
         IN  IF step.raised THEN Raise(step.exc, results)
             ELSE GenerateUntilLoop(tasks, Tail(requests), Append(results, step.value))

\* generate_until(self, requests)
GenerateUntil(tasks, requests) == GenerateUntilLoop(tasks, requests, <<>>)

\* generate_until_multi_round catching what generate_until raises
GenerateUntilMultiRoundSwallow(tasks, requests) ==
    Return(GenerateUntil(tasks, requests).results)

\* generate_until_multi_round(self, requests)
GenerateUntilMultiRound(tasks, requests) == GenerateUntil(tasks, requests)

\* loglikelihood returning the empty list for the empty batch
LoglikelihoodEmptyReturns(requests) ==
    IF requests = <<>> THEN Return(<<>>) ELSE Raise("NotImplementedError", <<>>)

\* loglikelihood(self, requests)
Loglikelihood(requests) == Raise("NotImplementedError", <<>>)

\* set_parent_tasks updating the old registry instead of replacing it
SetParentTasksMerge(old_tasks, task_dict) ==
    [k \in DOMAIN old_tasks \cup DOMAIN task_dict |->
        IF k \in DOMAIN task_dict THEN task_dict[k] ELSE old_tasks[k]]

\* set_parent_tasks(self, task_dict): the new value of self._parent_tasks
SetParentTasks(old_tasks, task_dict) == task_dict

(***************************************************************************)
(* The state machine.  The harness holds one batch of requests, drawn at   *)
(* construction time, and calls the four methods on it in any order.       *)
(***************************************************************************)
Call(op, before, task_dict, outcome) ==
    [op |-> op, before |-> before, task_dict |-> task_dict, outcome |-> outcome]

\* __init__
Init ==
    /\ submitted \in Batches
    /\ parent_tasks = EmptyRegistry
    /\ configured_with = EmptyRegistry
    /\ last = Call("__init__", EmptyRegistry, EmptyRegistry, Return(<<>>))

set_parent_tasks ==
    \E task_dict \in Registries :
        /\ parent_tasks' = SetParentTasks(parent_tasks, task_dict)
        /\ configured_with' = task_dict
        /\ last' = Call("set_parent_tasks", parent_tasks, task_dict, Return(<<>>))
        /\ UNCHANGED submitted

generate_until ==
    /\ last' = Call("generate_until", parent_tasks, EmptyRegistry,
                    GenerateUntil(parent_tasks, submitted))
    /\ UNCHANGED <<parent_tasks, configured_with, submitted>>

generate_until_multi_round ==
    /\ last' = Call("generate_until_multi_round", parent_tasks, EmptyRegistry,
                    GenerateUntilMultiRound(parent_tasks, submitted))
    /\ UNCHANGED <<parent_tasks, configured_with, submitted>>

loglikelihood ==
    /\ last' = Call("loglikelihood", parent_tasks, EmptyRegistry, Loglikelihood(submitted))
    /\ UNCHANGED <<parent_tasks, configured_with, submitted>>

Next ==
    \/ set_parent_tasks
    \/ generate_until
    \/ generate_until_multi_round
    \/ loglikelihood

Spec == Init /\ [][Next]_vars

(***************************************************************************)
(* Vocabulary of the properties.                                           *)
(***************************************************************************)
\* the most recent call was generate_until on the submitted batch
Generated == last.op = "generate_until"

\* the request's argument tuple is missing or not of length 6
Malformed(request) == ~request.has_arguments \/ Len(request.arguments) # 6

\* a well-formed request naming a task that is not a key of the registry
UnknownTask(tasks, request) ==
    /\ ~Malformed(request)
    /\ request.arguments[5] \notin DOMAIN tasks

\* a well-formed request of a known task
KnownTask(tasks, request) ==
    /\ ~Malformed(request)
    /\ request.arguments[5] \in DOMAIN tasks

\* the split is not in the task's dataset
SplitAbsent(tasks, request) ==
    /\ KnownTask(tasks, request)
    /\ request.arguments[6] \notin DOMAIN tasks[request.arguments[5]].dataset

\* the split exists and the index addresses none of its documents
IndexOutOfRange(tasks, request) ==
    /\ KnownTask(tasks, request)
    /\ request.arguments[6] \in DOMAIN tasks[request.arguments[5]].dataset
    /\ LET n == Len(tasks[request.arguments[5]].dataset[request.arguments[6]])
           i == request.arguments[4]
       IN  i >= n \/ i < 0 - n

\* task, split and document of the request resolve; DocOf is the document
Resolvable(tasks, request) ==
    /\ KnownTask(tasks, request)
    /\ ~SplitAbsent(tasks, request)
    /\ ~IndexOutOfRange(tasks, request)

DocOf(tasks, request) ==
    Lookup(tasks[request.arguments[5]], request.arguments[6], request.arguments[4]).doc

\* doc_to_answer raises on the request's document
DocFaults(tasks, request) ==
    /\ Resolvable(tasks, request)
    /\ DocToAnswer(DocOf(tasks, request)).raises

\* doc_to_answer returns a value for the request's document
DocAnswers(tasks, request) ==
    /\ Resolvable(tasks, request)
    /\ ~DocToAnswer(DocOf(tasks, request)).raises

Positions == 1 .. Len(submitted)

\* position i was reached and a string was appended for it
Produced(i) == i <= Len(last.outcome.results)

\* the exception of the call left the loop at position i
EscapedAt(i) == last.outcome.kind = "raise" /\ i = Len(last.outcome.results) + 1

Without(seq, i) == SubSeq(seq, 1, i - 1) \o SubSeq(seq, i + 1, Len(seq))
InsertAt(seq, i, v) == SubSeq(seq, 1, i - 1) \o <<v>> \o SubSeq(seq, i, Len(seq))

\* Request i of the batch contributed "" at position i and nothing else:
\* the call went exactly as on the batch without request i, with ""
\* inserted at position i of the list (when the call got that far).
IsolatedAt(i) ==
    LET o == GenerateUntil(last.before, Without(submitted, i))
    IN  /\ ~EscapedAt(i)
        /\ last.outcome =
             IF Len(o.results) >= i - 1
             THEN [o EXCEPT !.results = InsertAt(o.results, i, "")]
             ELSE o

\* the string the normalisation rules give for each answer of the datasets
ExpectedAnswer(doc) ==
    CASE doc = "doc_cat" -> "cat"
      [] doc = "doc_list" -> "cat"
      [] doc = "doc_empty" -> ""
      [] doc = "doc_none" -> ""
      [] doc = "doc_num" -> "-42"

(***************************************************************************)
(* Properties.                                                             *)
(***************************************************************************)

\* C1: no exception ever escapes generate_until: whatever the registry and
\* the batch, the call returns a list.
C1_NoExceptionEscapes == Generated => last.outcome.kind = "return"

\* C2: a well-formed request of a known task whose split is absent or whose
\* document index is out of range yields "" at its own position (and the
\* batch goes on).
C2_LookupFailureYieldsSentinel ==
    Generated =>
        \A i \in Positions :
            (SplitAbsent(last.before, submitted[i]) \/ IndexOutOfRange(last.before, submitted[i]))
                => (Produced(i) /\ last.outcome.results[i] = "")

\* C3: generate_until returns a list as long as the batch, position i
\* holding the resolution of request i.
C3_LengthAndOrder ==
    Generated =>
        /\ last.outcome.kind = "return"
        /\ Len(last.outcome.results) = Len(submitted)
        /\ \A i \in Positions :
               last.outcome.results[i] = ResolveRequest(last.before, submitted[i]).value

\* C4: when task, split and document resolve and doc_to_answer returns a
\* value, the string at that position is the normalisation of the value:
\* None gives "", a list its first element or "" when empty, anything else
\* its string conversion; such a request never makes the call raise.
C4_AnswerNormalized ==
    Generated =>
        \A i \in Positions :
            DocAnswers(last.before, submitted[i]) =>
                /\ ~EscapedAt(i)
                /\ Produced(i) =>
                       last.outcome.results[i] = ExpectedAnswer(DocOf(last.before, submitted[i]))

C4_Witness ==
    /\ Generated
    /\ last.outcome.kind = "return"
    /\ Len(submitted) = 2
    /\ DocAnswers(last.before, submitted[1])
    /\ DocOf(last.before, submitted[1]) = "doc_list"
    /\ DocAnswers(last.before, submitted[2])
    /\ DocOf(last.before, submitted[2]) = "doc_num"
    /\ last.outcome.results = <<"cat", "-42">>

\* C5: a request without an argument tuple of exactly 6 elements yields ""
\* at its position whatever the registry holds, and the rest of the batch
\* resolves as it does without that request.
C5_MalformedIsolated ==
    Generated =>
        \A i \in Positions : Malformed(submitted[i]) => IsolatedAt(i)

C5_Witness ==
    /\ Generated
    /\ Len(submitted) = 2
    /\ Malformed(submitted[1])
    /\ Len(submitted[1].arguments) = 4
    /\ DocAnswers(last.before, submitted[2])
    /\ last.outcome = Return(<<"", "cat">>)

\* C6: a well-formed request whose task is not a key of the registry yields
\* "" at its position, raises nothing and leaves the rest of the batch
\* alone; with the empty registry every request of every batch yields "".
C6_UnknownTaskIsolated ==
    Generated =>
        /\ \A i \in Positions : UnknownTask(last.before, submitted[i]) => IsolatedAt(i)
        /\ last.before = EmptyRegistry =>
               last.outcome = Return([i \in Positions |-> ""])

C6_Witness ==
    /\ Generated
    /\ Len(submitted) = 2
    /\ last.before # EmptyRegistry
    /\ UnknownTask(last.before, submitted[1])
    /\ submitted[1].arguments[5] = "unknown_task"
    /\ DocAnswers(last.before, submitted[2])
    /\ last.outcome = Return(<<"", "-42">>)

\* C7: when doc_to_answer raises for a request's document, the request
\* yields "" at its position, the fault does not leave the call, and the
\* requests after it are resolved as they are without it.
C7_AnswerFaultIsolated ==
    Generated =>
        \A i \in Positions : DocFaults(last.before, submitted[i]) => IsolatedAt(i)

C7_Witness ==
    /\ Generated
    /\ Len(submitted) = 2
    /\ DocFaults(last.before, submitted[1])
    /\ DocAnswers(last.before, submitted[2])
    /\ last.outcome = Return(<<"", "cat">>)

\* C8: the registry is the argument of the most recent set_parent_tasks
\* call (the empty mapping before the first): set_parent_tasks replaces it
\* without merging, the other three methods leave it as it was on entry.
C8_RegistryIsLastConfigured ==
    /\ parent_tasks = configured_with
    /\ last.op = "set_parent_tasks" => parent_tasks = last.task_dict
    /\ last.op \in {"generate_until", "generate_until_multi_round", "loglikelihood"}
           => parent_tasks = last.before

C8_Witness ==
    /\ last.op = "set_parent_tasks"
    /\ last.before # EmptyRegistry
    /\ DOMAIN last.before = {"T"}
    /\ DOMAIN last.task_dict = {"U"}
    /\ DOMAIN parent_tasks = {"U"}

\* C9: loglikelihood raises NotImplementedError on every call, for empty
\* and non-empty batches, configured or not; it never returns.
C9_LoglikelihoodUnsupported ==
    last.op = "loglikelihood" =>
        /\ last.outcome.kind = "raise"
        /\ last.outcome.exc = "NotImplementedError"

C9_Witness ==
    /\ last.op = "loglikelihood"
    /\ submitted = <<>>
    /\ last.before # EmptyRegistry
    /\ last.outcome.kind = "raise"

\* C10: generate_until_multi_round has the outcome generate_until has on
\* the same batch and registry (same list or same exception), and leaves
\* the registry unchanged.
C10_MultiRoundSameAsGenerateUntil ==
    last.op = "generate_until_multi_round" =>
        /\ last.outcome = GenerateUntil(last.before, submitted)
        /\ parent_tasks = last.before

C10_Witness ==
    /\ last.op = "generate_until_multi_round"
    /\ Len(submitted) = 2
    /\ DocAnswers(last.before, submitted[1])
    /\ IndexOutOfRange(last.before, submitted[2])
    /\ last.outcome = Raise("IndexError", <<"cat">>)

====
